---- MODULE Spec2Model ----
(***************************************************************************)
(* Model of excel_summary_generator.py: the classifier (hostname, firmware *)
(* version, test kind of one CSV file), the grouper, the compiler, the     *)
(* template populator and the report driver (main).                        *)
(*                                                                         *)
(* Text is modelled as a sequence of one-character strings, so that        *)
(* searching, lower-casing and stripping are computed, not assumed.        *)
(* A Python Optional is the record [some, v]; None has some = FALSE.       *)
(***************************************************************************)
EXTENDS Integers, Sequences, FiniteSets, TLC

VARIABLES
    cls_file,       \* classifier harness: the file being classified
    cls_pc,         \* classifier harness: next call to make
    cls_host,       \* result of extract_system_hostname
    cls_fw,         \* result of extract_firmware_version
    cls_kind,       \* result of identify_test_type
    csv_files,      \* the list of paths handed to the grouper
    grouped,        \* the grouper's dict, as its entries in insertion order
    grp_pc,         \* grouper harness: position
    grp_i,          \* grouper harness: index of the next file of the loop
    grp_first,      \* grouper harness: what the first call returned
    grp_tables,     \* grouper harness: per bucket, the compiled tables
    cmp_bucket,     \* compiler harness: the bucket the loop body is run on
    cmp_pc,         \* compiler harness: position
    cmp_prbs,       \* compiler harness: compile_test_data of the PRBS list
    cmp_data,       \* compiler harness: compile_test_data of the DATA list
    cmp_out,        \* compiler harness: what the loop body did
    data_dir,       \* the files in DATA_DIR
    args_systems,   \* main: args.systems
    pc,             \* main: position
    main_i,         \* main: index of the next bucket of the loop
    success_count,  \* main: success_count
    error_count,    \* main: error_count
    summaries,      \* the reports in OUTPUT_DIR written by this run
    outcomes,       \* main: per bucket processed, what was done
    missing_warned, \* main: the systems warned about as not found
    summary_printed,\* main: the final tally was printed
    exit_status     \* main: -1 while running, then the exit status

cls_vars == <<cls_file, cls_pc, cls_host, cls_fw, cls_kind>>
grp_vars == <<grp_pc, grp_i, grp_first, grp_tables>>
cmp_vars == <<cmp_bucket, cmp_pc, cmp_prbs, cmp_data, cmp_out>>
main_vars == <<data_dir, args_systems, pc, main_i, success_count, error_count, summaries,
               outcomes, missing_warned, summary_printed, exit_status>>
vars == <<cls_vars, csv_files, grouped, grp_vars, cmp_vars, main_vars>>

----------------------------------------------------------------------------
(* Bounds *)

\* longest filename drawn for the classifier, in segments
MaxSegs == 3

\* longest list of files handed to the grouper, the compiler or main
MaxFiles == 3

----------------------------------------------------------------------------
(* Text helpers *)

NoneSeq == [some |-> FALSE, v |-> <<>>]
SomeSeq(s) == [some |-> TRUE, v |-> s]
NoneStr == [some |-> FALSE, v |-> ""]
SomeStr(s) == [some |-> TRUE, v |-> s]

\* Python truthiness of an Optional[str]: None and '' are falsy
Truthy(o) == o.some /\ o.v # <<>>
TruthyStr(o) == o.some /\ o.v # ""

Digits == {"0", "1", "2", "3", "4", "5", "6", "7", "8", "9"}

UpperCase == <<"A", "B", "C", "D", "E", "F", "G", "H", "I", "J", "K", "L", "M",
               "N", "O", "P", "Q", "R", "S", "T", "U", "V", "W", "X", "Y", "Z">>
LowerCase == <<"a", "b", "c", "d", "e", "f", "g", "h", "i", "j", "k", "l", "m",
               "n", "o", "p", "q", "r", "s", "t", "u", "v", "w", "x", "y", "z">>

LowerChar(c) ==
    IF \E i \in DOMAIN UpperCase : UpperCase[i] = c
    THEN LowerCase[CHOOSE i \in DOMAIN UpperCase : UpperCase[i] = c]
    ELSE c

\* str.lower()
lower(s) == [i \in DOMAIN s |-> LowerChar(s[i])]

\* s[p .. p+Len(lit)-1] = lit
LitAt(s, p, lit) ==
    /\ p >= 1
    /\ p + Len(lit) - 1 <= Len(s)
    /\ \A i \in 1..Len(lit) : s[p + i - 1] = lit[i]

\* Python's `sub in s`
Contains(s, sub) == \E p \in 1..(Len(s) + 1) : LitAt(s, p, sub)

Whitespace == {" ", "\t"}

RECURSIVE lstrip(_)
lstrip(s) == IF s # <<>> /\ Head(s) \in Whitespace THEN lstrip(Tail(s)) ELSE s

RECURSIVE rstrip(_)
rstrip(s) ==
    IF s # <<>> /\ s[Len(s)] \in Whitespace
    THEN rstrip(SubSeq(s, 1, Len(s) - 1))
    ELSE s

\* str.strip()
strip(s) == rstrip(lstrip(s))

----------------------------------------------------------------------------
(* Regular expressions of extract_firmware_version *)

\* \d+ is greedy: the first position at or after p that holds no digit
RECURSIVE DigitRunEnd(_, _)
DigitRunEnd(s, p) ==
    IF p <= Len(s) /\ s[p] \in Digits THEN DigitRunEnd(s, p + 1) ELSE p

\* v\d+_\d+_\d+ anchored at p: the position after the match, 0 if no match.
\* Giving back digits never helps: the character after a shorter run is a
\* digit, and the pattern wants '_' there.
MatchGeneralAt(s, p) ==
    IF ~LitAt(s, p, <<"v">>) THEN 0
    ELSE LET q1 == DigitRunEnd(s, p + 1) IN
         IF q1 = p + 1 \/ ~LitAt(s, q1, <<"_">>) THEN 0
         ELSE LET q2 == DigitRunEnd(s, q1 + 1) IN
              IF q2 = q1 + 1 \/ ~LitAt(s, q2, <<"_">>) THEN 0
              ELSE LET q3 == DigitRunEnd(s, q2 + 1) IN
                   IF q3 = q2 + 1 THEN 0 ELSE q3

S_erisc == <<"e", "r", "i", "s", "c", "_">>

\* erisc_v\d+_\d+_\d+ anchored at p
MatchSpecificAt(s, p) ==
    IF LitAt(s, p, S_erisc) THEN MatchGeneralAt(s, p + Len(S_erisc)) ELSE 0

\* re.search(pattern, s).group(0): the leftmost match, None if there is none
SearchSpecific(s) ==
    IF \E p \in 1..Len(s) : MatchSpecificAt(s, p) > 0
    THEN LET p == CHOOSE p \in 1..Len(s) :
                    /\ MatchSpecificAt(s, p) > 0
                    /\ \A r \in 1..(p - 1) : MatchSpecificAt(s, r) = 0
         IN SomeSeq(SubSeq(s, p, MatchSpecificAt(s, p) - 1))
    ELSE NoneSeq

SearchGeneral(s) ==
    IF \E p \in 1..Len(s) : MatchGeneralAt(s, p) > 0
    THEN LET p == CHOOSE p \in 1..Len(s) :
                    /\ MatchGeneralAt(s, p) > 0
                    /\ \A r \in 1..(p - 1) : MatchGeneralAt(s, r) = 0
         IN SomeSeq(SubSeq(s, p, MatchGeneralAt(s, p) - 1))
    ELSE NoneSeq

----------------------------------------------------------------------------
(* CSV files.  A file is its name and what pandas makes of its bytes:      *)
(*   head  pd.read_csv(path, nrows=1) returns (FALSE: it raises)           *)
(*   full  pd.read_csv(path) returns (FALSE: it raises)                    *)
(*   cols  the header's column names                                       *)
(*   rows  the data rows; a cell is its raw text, the empty text is NaN    *)
(***************************************************************************)

TEST_TYPE_PRBS == "TestType.SERDES_PRBS"
TEST_TYPE_DATA == "TestType.SIMPLE_PACKET"

\* float('nan') among text values: no text equals it (every element of a text
\* is one character)
NaN == <<"nan">>

\* what read_csv makes of a field's raw text: an empty field is NaN, any
\* other text is kept as it is (skipinitialspace is off)
ParseCell(raw) == IF raw = <<>> THEN NaN ELSE raw

\* pd.isna
isna(value) == value = NaN

\* the filename fallback shared by the three branches of identify_test_type
S_prbs_test == <<"p", "r", "b", "s", "_", "t", "e", "s", "t">>
S_data_test == <<"d", "a", "t", "a", "_", "t", "e", "s", "t">>

FilenameFallback(name) ==
    IF Contains(lower(name), S_prbs_test) THEN SomeStr("PRBS")
    ELSE IF Contains(lower(name), S_data_test) THEN SomeStr("DATA")
    ELSE NoneStr

----------------------------------------------------------------------------
(* Classifier *)

\* the two patterns tried in the opposite order
extract_firmware_version_general_first(f) ==
    LET match2 == SearchGeneral(f.name) IN
    IF match2.some THEN match2
    ELSE LET match1 == SearchSpecific(f.name) IN
         IF match1.some THEN match1 ELSE NoneSeq

extract_firmware_version(f) ==
    LET match1 == SearchSpecific(f.name) IN
    IF match1.some THEN match1
    ELSE LET match2 == SearchGeneral(f.name) IN
         IF match2.some THEN match2 ELSE NoneSeq

\* an unrecognized test_type value gives up without looking at the filename
identify_test_type_no_fallback(f) ==
    IF ~f.head THEN FilenameFallback(f.name)
    ELSE IF "test_type" \notin f.cols THEN FilenameFallback(f.name)
    ELSE IF f.rows = <<>> THEN FilenameFallback(f.name)
    ELSE LET test_type_value == f.rows[1].test_type IN
         IF test_type_value = TEST_TYPE_PRBS THEN SomeStr("PRBS")
         ELSE IF test_type_value = TEST_TYPE_DATA THEN SomeStr("DATA")
         ELSE NoneStr

identify_test_type(f) ==
    IF ~f.head THEN FilenameFallback(f.name)                 \* except Exception
    ELSE IF "test_type" \notin f.cols THEN FilenameFallback(f.name)
    ELSE IF f.rows = <<>> THEN FilenameFallback(f.name)      \* iloc[0] raises
    ELSE LET test_type_value == f.rows[1].test_type IN
         IF test_type_value = TEST_TYPE_PRBS THEN SomeStr("PRBS")
         ELSE IF test_type_value = TEST_TYPE_DATA THEN SomeStr("DATA")
         ELSE FilenameFallback(f.name)

extract_system_hostname(f) ==
    IF ~f.head THEN NoneSeq                                  \* except Exception
    ELSE IF "host" \notin f.cols THEN NoneSeq
    ELSE IF f.rows = <<>> THEN NoneSeq                       \* iloc[0] raises
    ELSE LET hostname == ParseCell(f.rows[1].host) IN
         IF isna(hostname) \/ hostname = <<>> THEN NoneSeq
         ELSE SomeSeq(strip(hostname))

----------------------------------------------------------------------------
(* Inputs of the classifier harness *)

S_v1_7_103 == <<"v", "1", "_", "7", "_", "1", "0", "3">>
S_v1_7 == <<"v", "1", "_", "7">>
S_x == <<"x">>
S_DATA_Test == <<"D", "A", "T", "A", "_", "T", "e", "s", "t">>
S_csv == <<".", "c", "s", "v">>

NameSegments == {S_erisc, S_v1_7_103, S_v1_7, S_x, S_prbs_test, S_DATA_Test}

RECURSIVE StemsOfLen(_)
StemsOfLen(k) ==
    IF k = 0 THEN {<<>>}
    ELSE {a \o b : a \in StemsOfLen(k - 1), b \in NameSegments}

\* filenames as DATA_DIR.glob('*.csv') yields them
ClsNames == {a \o S_csv : a \in UNION {StemsOfLen(k) : k \in 0..MaxSegs}}

HostCells == {<<>>, <<" ">>, <<" ", "h", "1", " ">>, <<"h", "2">>}
TypeCells == {TEST_TYPE_PRBS, TEST_TYPE_DATA, "TestType.OTHER", ""}

FirstRows(cols) ==
    {<<>>} \cup
    {<<[host |-> h, test_type |-> t, val |-> "r"]>> :
        h \in (IF "host" \in cols THEN HostCells ELSE {<<>>}),
        t \in (IF "test_type" \in cols THEN TypeCells ELSE {""})}

ClsContents ==
    {[head |-> FALSE, full |-> FALSE, cols |-> {}, rows |-> <<>>]} \cup
    UNION {{[head |-> TRUE, full |-> TRUE, cols |-> c, rows |-> r] :
                r \in FirstRows(c)} : c \in SUBSET {"host", "test_type"}}

MkFile(name, content) ==
    [name |-> name, head |-> content.head, full |-> content.full,
     cols |-> content.cols, rows |-> content.rows]

----------------------------------------------------------------------------
(* The files on disk that the grouper, the compiler and main are run on.   *)
(* A path is an identifier; Disk gives its name and content.               *)

S_us == <<"_">>
S_PRBS_TEST == <<"P", "R", "B", "S", "_", "T", "E", "S", "T">>
H_h1 == <<"h", "1">>
H_h2 == <<"h", "2">>
H_h9 == <<"h", "9">>
H_h1_erisc == <<"h", "1", "_", "e", "r", "i", "s", "c">>

Row(h, t, v) == [host |-> h, test_type |-> t, val |-> v]

File(name, head, full, cols, rows) ==
    [name |-> name \o S_csv, head |-> head, full |-> full, cols |-> cols,
     rows |-> rows]

BothCols == {"host", "test_type"}

Paths == {"f1", "f2", "f3", "f4", "f5", "f6", "f7", "f8", "f9", "f10", "f11"}

Disk(p) ==
    CASE p = "f1" ->   \* (h1, erisc_v1_7_103), PRBS by content, two rows
            File(<<"a">> \o S_us \o S_erisc \o S_v1_7_103, TRUE, TRUE, BothCols,
                 <<Row(H_h1, TEST_TYPE_PRBS, "f1r1"), Row(H_h1, TEST_TYPE_PRBS, "f1r2")>>)
      [] p = "f2" ->   \* same key, DATA by content although the name says prbs_test
            File(<<"b">> \o S_us \o S_erisc \o S_v1_7_103 \o S_us \o S_prbs_test,
                 TRUE, TRUE, BothCols,
                 <<Row(<<" ">> \o H_h1 \o <<" ">>, TEST_TYPE_DATA, "f2r1")>>)
      [] p = "f3" ->   \* (h2, v1_7_103), PRBS by name; the full read fails
            File(<<"c">> \o S_us \o S_v1_7_103 \o S_us \o S_PRBS_TEST,
                 TRUE, FALSE, BothCols,
                 <<Row(H_h2, "TestType.OTHER", "f3r1")>>)
      [] p = "f4" ->   \* (h1, v1_7_103), DATA by name: no test_type column
            File(<<"d">> \o S_us \o S_v1_7_103 \o S_us \o S_DATA_Test,
                 TRUE, TRUE, {"host"},
                 <<Row(H_h1, "", "f4r1")>>)
      [] p = "f5" ->   \* a host of white space only
            File(<<"e">> \o S_us \o S_erisc \o S_v1_7_103 \o S_us \o S_prbs_test,
                 TRUE, TRUE, BothCols,
                 <<Row(<<" ">>, TEST_TYPE_PRBS, "f5r1")>>)
      [] p = "f6" ->   \* no firmware version in the name
            File(<<"f">> \o S_us \o S_v1_7 \o S_us \o S_prbs_test,
                 TRUE, TRUE, BothCols,
                 <<Row(H_h1, TEST_TYPE_PRBS, "f6r1")>>)
      [] p = "f7" ->   \* a header and no data row
            File(<<"g">> \o S_us \o S_erisc \o S_v1_7_103 \o S_us \o S_prbs_test,
                 TRUE, TRUE, BothCols, <<>>)
      [] p = "f8" ->   \* not parseable at all
            File(<<"h">> \o S_us \o S_erisc \o S_v1_7_103 \o S_us \o S_prbs_test,
                 FALSE, FALSE, {}, <<>>)
      [] p = "f9" ->   \* no test kind: an empty test_type field, no marker
            File(<<"i">> \o S_us \o S_erisc \o S_v1_7_103, TRUE, TRUE, BothCols,
                 <<Row(H_h1, "", "f9r1")>>)
      [] p = "f10" ->  \* (h1, erisc_v1_7_103), PRBS by content, one row
            File(<<"j">> \o S_us \o S_erisc \o S_v1_7_103 \o S_us \o S_data_test,
                 TRUE, TRUE, BothCols,
                 <<Row(H_h1, TEST_TYPE_PRBS, "f10r1")>>)
      [] p = "f11" ->  \* (h1_erisc, v1_7_103), PRBS by content
            File(<<"k">> \o S_us \o S_v1_7_103, TRUE, TRUE, BothCols,
                 <<Row(H_h1_erisc, TEST_TYPE_PRBS, "f11r1")>>)

\* the sequences over S of length n, and of length at most n
RECURSIVE SeqsOfLen(_, _)
SeqsOfLen(S, n) ==
    IF n = 0 THEN {<<>>}
    ELSE {Append(q, x) : q \in SeqsOfLen(S, n - 1), x \in S}

SeqsUpTo(S, n) == UNION {SeqsOfLen(S, k) : k \in 0..n}

Range(q) == {q[i] : i \in DOMAIN q}

----------------------------------------------------------------------------
(* Grouper *)

NoBuckets == <<>>

KeyIndex(g, key) ==
    IF \E i \in DOMAIN g : g[i].key = key
    THEN CHOOSE i \in DOMAIN g : g[i].key = key
    ELSE 0

\* the path is put at the front of the bucket's list
AppendToBucket_prepend(g, key, test_type, csv_path) ==
    LET g1 == IF KeyIndex(g, key) = 0
              THEN Append(g, [key |-> key, PRBS |-> <<>>, DATA |-> <<>>])
              ELSE g
        i == KeyIndex(g1, key)
    IN [g1 EXCEPT ![i] = IF test_type = "PRBS"
                         THEN [@ EXCEPT !.PRBS = <<csv_path>> \o @]
                         ELSE [@ EXCEPT !.DATA = <<csv_path>> \o @]]

\* grouped[key][test_type].append(csv_path), the defaultdict making the
\* entry {'PRBS': [], 'DATA': []} on the first use of a key
AppendToBucket(g, key, test_type, csv_path) ==
    LET g1 == IF KeyIndex(g, key) = 0
              THEN Append(g, [key |-> key, PRBS |-> <<>>, DATA |-> <<>>])
              ELSE g
        i == KeyIndex(g1, key)
    IN [g1 EXCEPT ![i] = IF test_type = "PRBS"
                         THEN [@ EXCEPT !.PRBS = Append(@, csv_path)]
                         ELSE [@ EXCEPT !.DATA = Append(@, csv_path)]]

\* a hostname is refused only when it is None, so '' is let through
GroupOne_is_none(g, csv_path) ==
    LET hostname == extract_system_hostname(Disk(csv_path))
        firmware_version == extract_firmware_version(Disk(csv_path))
        test_type == identify_test_type(Disk(csv_path))
    IN IF ~hostname.some THEN g
       ELSE IF ~firmware_version.some THEN g
       ELSE IF ~test_type.some THEN g
       ELSE AppendToBucket(g, <<hostname.v, firmware_version.v>>, test_type.v, csv_path)

\* a path already in the bucket is not added again
GroupOne_dedup(g, csv_path) ==
    LET hostname == extract_system_hostname(Disk(csv_path))
        firmware_version == extract_firmware_version(Disk(csv_path))
        test_type == identify_test_type(Disk(csv_path))
    IN IF ~Truthy(hostname) \/ ~Truthy(firmware_version) \/ ~TruthyStr(test_type) THEN g
       ELSE IF \E i \in DOMAIN g : csv_path \in Range(g[i].PRBS) \cup Range(g[i].DATA)
       THEN g
       ELSE AppendToBucket(g, <<hostname.v, firmware_version.v>>, test_type.v, csv_path)

\* one iteration of the loop of group_csvs_by_system_and_firmware
GroupOne(g, csv_path) ==
    LET hostname == extract_system_hostname(Disk(csv_path))
        firmware_version == extract_firmware_version(Disk(csv_path))
        test_type == identify_test_type(Disk(csv_path))
    IN IF ~Truthy(hostname) THEN g
       ELSE IF ~Truthy(firmware_version) THEN g
       ELSE IF ~TruthyStr(test_type) THEN g
       ELSE AppendToBucket(g, <<hostname.v, firmware_version.v>>, test_type.v, csv_path)

RECURSIVE GroupFrom(_, _)
GroupFrom(g, files) ==
    IF files = <<>> THEN g ELSE GroupFrom(GroupOne(g, Head(files)), Tail(files))

group_csvs_by_system_and_firmware(files) == GroupFrom(NoBuckets, files)

----------------------------------------------------------------------------
(* Compiler *)

NoTable == [some |-> FALSE, columns |-> <<>>, rows |-> <<>>]

\* the header of a file: its columns in the order of the file, then 'val'
ColumnsOf(f) ==
    SelectSeq(<<"host", "test_type">>, LAMBDA c : c \in f.cols) \o <<"val">>

\* pd.read_csv(csv_path): the rows under a RangeIndex starting at 0
read_csv(f) ==
    [columns |-> ColumnsOf(f),
     rows |-> [i \in DOMAIN f.rows |-> [index |-> i - 1, cells |-> f.rows[i]]]]

\* the loop of compile_test_data: the frames of the files that can be read
\* and are not empty, in the order of the files
RECURSIVE ReadFrames(_)
ReadFrames(files) ==
    IF files = <<>> THEN <<>>
    ELSE LET f == Disk(Head(files)) IN
         IF ~f.full THEN ReadFrames(Tail(files))                 \* except: continue
         ELSE IF read_csv(f).rows = <<>> THEN ReadFrames(Tail(files))  \* df.empty
         ELSE <<read_csv(f)>> \o ReadFrames(Tail(files))

RECURSIVE ConcatColumns(_)
ConcatColumns(frames) ==
    IF frames = <<>> THEN <<>>
    ELSE LET before == ConcatColumns(SubSeq(frames, 1, Len(frames) - 1))
             last == frames[Len(frames)].columns
         IN before \o SelectSeq(last, LAMBDA c : c \notin Range(before))

RECURSIVE ConcatRows(_)
ConcatRows(frames) ==
    IF frames = <<>> THEN <<>>
    ELSE Head(frames).rows \o ConcatRows(Tail(frames))

\* pd.concat(dataframes) keeping each frame's own index
concat_keep_index(frames) ==
    [some |-> TRUE, columns |-> ConcatColumns(frames), rows |-> ConcatRows(frames)]

\* pd.concat(dataframes, ignore_index=True)
concat(frames) ==
    LET rows == ConcatRows(frames) IN
    [some |-> TRUE, columns |-> ConcatColumns(frames),
     rows |-> [i \in DOMAIN rows |-> [rows[i] EXCEPT !.index = i - 1]]]

\* the batch is given up at the first file that cannot be read
compile_test_data_abort(files) ==
    IF files = <<>> THEN NoTable
    ELSE IF \E i \in DOMAIN files : ~Disk(files[i]).full THEN NoTable
    ELSE LET dataframes == ReadFrames(files) IN
         IF dataframes = <<>> THEN NoTable ELSE concat(dataframes)

compile_test_data(files) ==
    IF files = <<>> THEN NoTable
    ELSE LET dataframes == ReadFrames(files) IN
         IF dataframes = <<>> THEN NoTable ELSE concat(dataframes)

----------------------------------------------------------------------------
(* Template Populator.  A workbook is its sheet names, the content of the  *)
(* two raw-data sheets and the pivot tables of the two summary sheets.     *)

SHEET_RAW_PRBS == "raw prbs data"
SHEET_RAW_DATA == "raw data"
SHEET_PRBS_SUMMARY == "PRBS Summary"
SHEET_DATA_SUMMARY == "DATA Summary"

AllSheets == {SHEET_RAW_PRBS, SHEET_RAW_DATA, SHEET_PRBS_SUMMARY, SHEET_DATA_SUMMARY}

\* what a sheet of the template holds before anything is pasted
StaleSheet == [fresh |-> FALSE, header |-> <<"placeholder">>, rows |-> <<>>]
StaleRef == [first |-> "A1", last_col |-> "Z", last_row |-> 1000]
NoRange == [first |-> "", last_col |-> "", last_row |-> 0]

\* a pivot table: ws tells whether its cache source has a worksheetSource
WorksheetPivot(sheet) == [ws |-> TRUE, sheet |-> sheet, ref |-> StaleRef]
OtherPivot == [ws |-> FALSE, sheet |-> "", ref |-> NoRange]

TemplateWorkbook(sheetnames, with_pivots) ==
    [sheetnames |-> sheetnames,
     raw |-> [s \in {SHEET_RAW_PRBS, SHEET_RAW_DATA} |-> StaleSheet],
     pivots |-> [s \in {SHEET_PRBS_SUMMARY, SHEET_DATA_SUMMARY} |->
                    IF s \in sheetnames /\ with_pivots
                    THEN (IF s = SHEET_PRBS_SUMMARY
                          THEN <<WorksheetPivot("old prbs"), OtherPivot,
                                 WorksheetPivot("old prbs")>>
                          ELSE <<WorksheetPivot("old data")>>)
                    ELSE <<>>]]

\* what may lie at TEMPLATE_PATH when a bucket's report is made: nothing
\* that loads (absent or corrupt), or a workbook
Templates ==
    {[ok |-> FALSE, wb |-> TemplateWorkbook({}, FALSE)]} \cup
    {[ok |-> TRUE, wb |-> TemplateWorkbook(sn, TRUE)] :
        sn \in {AllSheets,
                AllSheets \ {SHEET_RAW_PRBS},
                AllSheets \ {SHEET_RAW_DATA},
                AllSheets \ {SHEET_RAW_PRBS, SHEET_RAW_DATA},
                AllSheets \ {SHEET_PRBS_SUMMARY},
                AllSheets \ {SHEET_DATA_SUMMARY}}} \cup
    {[ok |-> TRUE, wb |-> TemplateWorkbook(AllSheets, FALSE)]}

\* load_template: the workbook, or None
load_template(template) ==
    IF template.ok THEN [some |-> TRUE, wb |-> template.wb]
    ELSE [some |-> FALSE, wb |-> template.wb]

\* get_column_letter, for the first 26 columns
get_column_letter(n) == UpperCase[n]

\* f"A1:{get_column_letter(last_col)}{last_row}"
RangeString(last_row, last_col) ==
    [first |-> "A1", last_col |-> get_column_letter(last_col), last_row |-> last_row]

\* paste_data_to_sheet: the workbook afterwards, and (last_row, last_col),
\* (0, 0) standing for (None, None)
paste_data_to_sheet(workbook, sheet_name, data_df) ==
    IF sheet_name \notin workbook.sheetnames
    THEN [wb |-> workbook, last_row |-> 0, last_col |-> 0]
    ELSE [wb |-> [workbook EXCEPT !.raw[sheet_name] =
                      [fresh |-> TRUE, header |-> data_df.columns,
                       rows |-> data_df.rows]],
          last_row |-> Len(data_df.rows) + 1,
          last_col |-> Len(data_df.columns)]

\* only the first pivot table of the sheet is looked at
update_pivot_table_source_first_only(workbook, pivot_sheet_name, data_sheet_name, data_range) ==
    IF pivot_sheet_name \notin workbook.sheetnames THEN workbook
    ELSE [workbook EXCEPT !.pivots[pivot_sheet_name] =
             [k \in DOMAIN @ |->
                 IF k = 1 /\ @[k].ws
                 THEN [@[k] EXCEPT !.ref = data_range, !.sheet = data_sheet_name]
                 ELSE @[k]]]

\* update_pivot_table_source: every pivot table of the sheet that has a
\* worksheetSource gets the range and the sheet name; one without raises
\* inside the loop and is passed over
update_pivot_table_source(workbook, pivot_sheet_name, data_sheet_name, data_range) ==
    IF pivot_sheet_name \notin workbook.sheetnames THEN workbook
    ELSE [workbook EXCEPT !.pivots[pivot_sheet_name] =
             [k \in DOMAIN @ |->
                 IF @[k].ws
                 THEN [@[k] EXCEPT !.ref = data_range, !.sheet = data_sheet_name]
                 ELSE @[k]]]

\* lines 402-416 and 418-432: one kind's paste and pivot update
PasteKind(workbook, raw_sheet, summary_sheet, table) ==
    IF table.some /\ table.rows # <<>>
    THEN LET pasted == paste_data_to_sheet(workbook, raw_sheet, table) IN
         IF pasted.last_row # 0 /\ pasted.last_col # 0
         THEN LET range == RangeString(pasted.last_row, pasted.last_col) IN
              [wb |-> IF summary_sheet \in pasted.wb.sheetnames
                      THEN update_pivot_table_source(pasted.wb, summary_sheet,
                                                     raw_sheet, range)
                      ELSE pasted.wb,
               range |-> range]
         ELSE [wb |-> pasted.wb, range |-> NoRange]
    ELSE [wb |-> workbook, range |-> NoRange]

S_xlsx == <<".", "x", "l", "s", "x">>

\* f"{hostname}_{firmware_version}.xlsx"
OutputFilename(hostname, firmware_version) ==
    hostname \o <<"_">> \o firmware_version \o S_xlsx

NoReport == [path |-> <<>>, wb |-> TemplateWorkbook({}, FALSE),
             prbs_range |-> NoRange, data_range |-> NoRange]

\* a failing save is not noticed
generate_excel_summary_save_unchecked(template, save_ok, hostname, firmware_version, prbs_data, data_test_data) ==
    LET workbook == load_template(template) IN
    IF ~workbook.some THEN [ok |-> FALSE, saved |-> FALSE, report |-> NoReport]
    ELSE LET prbs == PasteKind(workbook.wb, SHEET_RAW_PRBS, SHEET_PRBS_SUMMARY, prbs_data)
             data == PasteKind(prbs.wb, SHEET_RAW_DATA, SHEET_DATA_SUMMARY, data_test_data)
             report == [path |-> OutputFilename(hostname, firmware_version),
                        wb |-> data.wb,
                        prbs_range |-> prbs.range, data_range |-> data.range]
         IN [ok |-> TRUE, saved |-> save_ok,
             report |-> IF save_ok THEN report ELSE NoReport]

\* generate_excel_summary, given what lies at TEMPLATE_PATH and whether
\* workbook.save succeeds: the return value, whether a file was written,
\* and the file
\* (OUTPUT_DIR.mkdir(exist_ok=True), line 396, is taken to succeed: the
\* directory exists or can be made)
generate_excel_summary(template, save_ok, hostname, firmware_version, prbs_data, data_test_data) ==
    LET workbook == load_template(template) IN
    IF ~workbook.some THEN [ok |-> FALSE, saved |-> FALSE, report |-> NoReport]
    ELSE LET prbs == PasteKind(workbook.wb, SHEET_RAW_PRBS, SHEET_PRBS_SUMMARY, prbs_data)
             data == PasteKind(prbs.wb, SHEET_RAW_DATA, SHEET_DATA_SUMMARY, data_test_data)
             report == [path |-> OutputFilename(hostname, firmware_version),
                        wb |-> data.wb,
                        prbs_range |-> prbs.range, data_range |-> data.range]
         IN IF save_ok
            THEN [ok |-> TRUE, saved |-> TRUE, report |-> report]
            ELSE [ok |-> FALSE, saved |-> FALSE, report |-> NoReport]

----------------------------------------------------------------------------
(* Report Driver: the body of the loop of main for one bucket *)

\* lines 523-525 and 528-530
CompileKind(files) == IF files # <<>> THEN compile_test_data(files) ELSE NoTable

\* the report is made even when both tables are None
ProcessBucket_no_skip(bucket, template, save_ok) ==
    LET prbs_data == CompileKind(bucket.PRBS)
        data_test_data == CompileKind(bucket.DATA)
        compiled == {k \in {"PRBS", "DATA"} :
                        (IF k = "PRBS" THEN bucket.PRBS ELSE bucket.DATA) # <<>>}
        calls == (IF bucket.PRBS # <<>> THEN <<[kind |-> "PRBS", files |-> bucket.PRBS]>>
                  ELSE <<>>) \o
                 (IF bucket.DATA # <<>> THEN <<[kind |-> "DATA", files |-> bucket.DATA]>>
                  ELSE <<>>)
        r == generate_excel_summary(template, save_ok, bucket.key[1],
                                    bucket.key[2], prbs_data, data_test_data)
    IN [key |-> bucket.key, compiled |-> compiled, calls |-> calls,
        prbs_data |-> prbs_data, data_test_data |-> data_test_data,
        generated |-> TRUE, loaded |-> template.ok,
        sheetnames |-> template.wb.sheetnames,
        template_pivots |-> template.wb.pivots,
        save_raised |-> template.ok /\ ~save_ok,
        result |-> r.ok, saved |-> r.saved, report |-> r.report,
        tally |-> IF r.ok THEN "success" ELSE "error"]

\* lines 519-541 for one bucket: what was done and how it was counted
ProcessBucket(bucket, template, save_ok) ==
    LET prbs_data == CompileKind(bucket.PRBS)
        data_test_data == CompileKind(bucket.DATA)
        compiled == {k \in {"PRBS", "DATA"} :
                        (IF k = "PRBS" THEN bucket.PRBS ELSE bucket.DATA) # <<>>}
        calls == (IF bucket.PRBS # <<>> THEN <<[kind |-> "PRBS", files |-> bucket.PRBS]>>
                  ELSE <<>>) \o
                 (IF bucket.DATA # <<>> THEN <<[kind |-> "DATA", files |-> bucket.DATA]>>
                  ELSE <<>>)
    IN IF ~prbs_data.some /\ ~data_test_data.some
       THEN [key |-> bucket.key, compiled |-> compiled, calls |-> calls,
             prbs_data |-> prbs_data, data_test_data |-> data_test_data,
             generated |-> FALSE, loaded |-> FALSE, sheetnames |-> {},
             template_pivots |-> TemplateWorkbook({}, FALSE).pivots,
             save_raised |-> FALSE, result |-> FALSE, saved |-> FALSE,
             report |-> NoReport, tally |-> "error"]
       ELSE LET r == generate_excel_summary(template, save_ok, bucket.key[1],
                                            bucket.key[2], prbs_data, data_test_data)
            IN [key |-> bucket.key, compiled |-> compiled, calls |-> calls,
                prbs_data |-> prbs_data, data_test_data |-> data_test_data,
                generated |-> TRUE, loaded |-> template.ok,
                sheetnames |-> template.wb.sheetnames,
                template_pivots |-> template.wb.pivots,
                save_raised |-> template.ok /\ ~save_ok,
                result |-> r.ok, saved |-> r.saved, report |-> r.report,
                tally |-> IF r.ok THEN "success" ELSE "error"]

----------------------------------------------------------------------------
(* Harnesses *)

\* the parts of the state a harness does not use
ClsIdle ==
    /\ cls_file = MkFile(S_csv, [head |-> FALSE, full |-> FALSE, cols |-> {}, rows |-> <<>>])
    /\ cls_pc = "off"
    /\ cls_host = NoneSeq
    /\ cls_fw = NoneSeq
    /\ cls_kind = NoneStr

GrpIdle ==
    /\ grp_pc = "off" /\ grp_i = 0 /\ grp_first = <<>> /\ grp_tables = <<>>

NoOutcome == ProcessBucket([key |-> <<>>, PRBS |-> <<>>, DATA |-> <<>>],
                           [ok |-> FALSE, wb |-> TemplateWorkbook({}, FALSE)], FALSE)

CmpIdle ==
    /\ cmp_bucket = [key |-> <<>>, PRBS |-> <<>>, DATA |-> <<>>]
    /\ cmp_pc = "off"
    /\ cmp_prbs = NoTable /\ cmp_data = NoTable
    /\ cmp_out = NoOutcome

MainIdle ==
    /\ data_dir = {}
    /\ args_systems = [given |-> FALSE, names |-> <<>>]
    /\ pc = "off"
    /\ main_i = 0 /\ success_count = 0 /\ error_count = 0
    /\ summaries = {} /\ outcomes = <<>> /\ missing_warned = {}
    /\ summary_printed = FALSE
    /\ exit_status = -1

----------------------------------------------------------------------------
(* Classifier harness: the three calls the grouper makes for one file,     *)
(* in its order (lines 178-180).                                           *)

ClsInit ==
    /\ cls_file \in {MkFile(n, c) : n \in ClsNames, c \in ClsContents}
    /\ cls_pc = "hostname"
    /\ cls_host = NoneSeq
    /\ cls_fw = NoneSeq
    /\ cls_kind = NoneStr
    /\ csv_files = <<>> /\ grouped = <<>>
    /\ GrpIdle /\ CmpIdle /\ MainIdle

ClsHostname ==
    /\ cls_pc = "hostname"
    /\ cls_host' = extract_system_hostname(cls_file)
    /\ cls_pc' = "firmware"
    /\ UNCHANGED <<cls_file, cls_fw, cls_kind, csv_files, grouped, grp_vars, cmp_vars, main_vars>>

ClsFirmware ==
    /\ cls_pc = "firmware"
    /\ cls_fw' = extract_firmware_version(cls_file)
    /\ cls_pc' = "test_type"
    /\ UNCHANGED <<cls_file, cls_host, cls_kind, csv_files, grouped, grp_vars, cmp_vars, main_vars>>

ClsTestType ==
    /\ cls_pc = "test_type"
    /\ cls_kind' = identify_test_type(cls_file)
    /\ cls_pc' = "classified"
    /\ UNCHANGED <<cls_file, cls_host, cls_fw, csv_files, grouped, grp_vars, cmp_vars, main_vars>>

ClsNext == ClsHostname \/ ClsFirmware \/ ClsTestType

SpecClassify == ClsInit /\ [][ClsNext]_vars

----------------------------------------------------------------------------
(* Properties of the classifier *)

\* w is, as a whole, v<digits>_<digits>_<digits>: a 'v', two underscores
\* that are neither adjacent nor first nor last after it, digits elsewhere
IsGeneralWord(w) ==
    /\ Len(w) >= 6
    /\ w[1] = "v"
    /\ LET U == {i \in 2..Len(w) : w[i] = "_"} IN
       /\ Cardinality(U) = 2
       /\ 2 \notin U /\ Len(w) \notin U
       /\ \A i \in U : i + 1 \notin U
       /\ \A i \in (2..Len(w)) \ U : w[i] \in Digits

\* w is, as a whole, erisc_v<digits>_<digits>_<digits>
IsSpecificWord(w) ==
    /\ Len(w) > Len(S_erisc)
    /\ \A i \in 1..Len(S_erisc) : w[i] = S_erisc[i]
    /\ IsGeneralWord(SubSeq(w, Len(S_erisc) + 1, Len(w)))

\* the occurrences <<i, j>> of a pattern in s
SpecificSpans(s) ==
    {ij \in {i \in 1..Len(s) : s[i] = "e"} \X (1..Len(s)) :
        IsSpecificWord(SubSeq(s, ij[1], ij[2]))}
GeneralSpans(s) ==
    {ij \in {i \in 1..Len(s) : s[i] = "v"} \X (1..Len(s)) :
        IsGeneralWord(SubSeq(s, ij[1], ij[2]))}

\* the leftmost occurrence, and the longest one starting there
LeftmostLongest(s, spans) ==
    LET ij == CHOOSE x \in spans :
                  \A y \in spans : x[1] < y[1] \/ (x[1] = y[1] /\ x[2] >= y[2])
    IN SubSeq(s, ij[1], ij[2])

\* C2: when the specific pattern (erisc_ then v and three numeric
\* components) occurs in the filename, extract_firmware_version returns
\* that occurrence, prefix included, even when the general pattern occurs
\* as well (and earlier); when only the general pattern occurs it returns
\* that occurrence; when neither occurs it returns None.
C2_SpecificPreferred ==
    cls_pc = "test_type" =>
        LET s == cls_file.name IN
        IF SpecificSpans(s) # {}
        THEN cls_fw = SomeSeq(LeftmostLongest(s, SpecificSpans(s)))
        ELSE IF GeneralSpans(s) # {}
        THEN cls_fw = SomeSeq(LeftmostLongest(s, GeneralSpans(s)))
        ELSE cls_fw = NoneSeq

\* the firmware was extracted from a name in which a general occurrence
\* starts before the first specific one
C2_Witness ==
    /\ cls_pc = "test_type"
    /\ SpecificSpans(cls_file.name) # {}
    /\ \E g \in GeneralSpans(cls_file.name) :
           \A x \in SpecificSpans(cls_file.name) : g[1] < x[1]
    /\ cls_fw.some /\ IsSpecificWord(cls_fw.v)

\* a and b are the same character up to letter case
SameIgnoringCase(a, b) ==
    \/ a = b
    \/ \E i \in DOMAIN UpperCase : {a, b} = {UpperCase[i], LowerCase[i]}

\* marker occurs in name, letter case ignored
HasMarker(name, marker) ==
    \E p \in 1..Len(name) :
        /\ p + Len(marker) - 1 <= Len(name)
        /\ \A i \in 1..Len(marker) : SameIgnoringCase(name[p + i - 1], marker[i])

\* the first row's test_type value is readable and one of the two literals
KnownTestType(f) ==
    /\ f.head /\ "test_type" \in f.cols /\ f.rows # <<>>
    /\ f.rows[1].test_type \in {TEST_TYPE_PRBS, TEST_TYPE_DATA}

\* C3: identify_test_type returns the kind of the first row's test_type
\* value when that is one of the two literals, whatever the filename; in
\* every other case (column absent, value unrecognized, read fails) it
\* returns PRBS if the filename holds 'prbs_test' in any letter case, else
\* DATA if it holds 'data_test', else None; it always returns one of these.
C3_TestTypeFallback ==
    cls_pc = "classified" =>
        LET f == cls_file IN
        /\ cls_kind \in {SomeStr("PRBS"), SomeStr("DATA"), NoneStr}
        /\ KnownTestType(f) =>
              cls_kind = SomeStr(IF f.rows[1].test_type = TEST_TYPE_PRBS
                                 THEN "PRBS" ELSE "DATA")
        /\ ~KnownTestType(f) =>
              cls_kind = (IF HasMarker(f.name, S_prbs_test) THEN SomeStr("PRBS")
                          ELSE IF HasMarker(f.name, S_data_test) THEN SomeStr("DATA")
                          ELSE NoneStr)

\* a file with an unrecognized test_type value and both markers in its name,
\* the DATA one in capitals, was classified as PRBS
C3_Witness ==
    /\ cls_pc = "classified"
    /\ cls_file.head /\ "test_type" \in cls_file.cols /\ cls_file.rows # <<>>
    /\ cls_file.rows[1].test_type = "TestType.OTHER"
    /\ Contains(cls_file.name, S_DATA_Test)
    /\ Contains(cls_file.name, S_prbs_test)
    /\ cls_kind = SomeStr("PRBS")

----------------------------------------------------------------------------
(* Grouper harness: group_csvs_by_system_and_firmware is called twice on   *)
(* the same list, one file per step; then every bucket's two lists are     *)
(* compiled, once as they are and once doubled (A and A+A).                *)

GrpInit ==
    /\ ClsIdle /\ CmpIdle /\ MainIdle
    /\ csv_files \in SeqsUpTo(Paths, MaxFiles)
    /\ grouped = <<>>
    /\ grp_pc = "call1"
    /\ grp_i = 1
    /\ grp_first = <<>>
    /\ grp_tables = <<>>

\* line 175: a new dict for this call
GrpEnter ==
    /\ grp_pc \in {"call1", "call2"}
    /\ grouped' = NoBuckets
    /\ grp_i' = 1
    /\ grp_pc' = IF grp_pc = "call1" THEN "loop1" ELSE "loop2"
    /\ UNCHANGED <<cls_vars, cmp_vars, main_vars, csv_files, grp_first, grp_tables>>

\* lines 177-196: one file
GrpStep ==
    /\ grp_pc \in {"loop1", "loop2"}
    /\ grp_i <= Len(csv_files)
    /\ grouped' = GroupOne(grouped, csv_files[grp_i])
    /\ grp_i' = grp_i + 1
    /\ UNCHANGED <<cls_vars, cmp_vars, main_vars, csv_files, grp_pc, grp_first, grp_tables>>

\* line 198
GrpReturn ==
    /\ grp_pc \in {"loop1", "loop2"}
    /\ grp_i > Len(csv_files)
    /\ grp_first' = IF grp_pc = "loop1" THEN grouped ELSE grp_first
    /\ grp_pc' = IF grp_pc = "loop1" THEN "call2" ELSE "compile"
    /\ grp_i' = 1
    /\ UNCHANGED <<cls_vars, cmp_vars, main_vars, csv_files, grouped, grp_tables>>

GrpCompile ==
    /\ grp_pc = "compile"
    /\ grp_i <= Len(grouped)
    /\ LET b == grouped[grp_i] IN
       grp_tables' = Append(grp_tables,
                            [PRBS |-> compile_test_data(b.PRBS),
                             DATA |-> compile_test_data(b.DATA),
                             PRBS2 |-> compile_test_data(b.PRBS \o b.PRBS),
                             DATA2 |-> compile_test_data(b.DATA \o b.DATA)])
    /\ grp_i' = grp_i + 1
    /\ UNCHANGED <<cls_vars, cmp_vars, main_vars, csv_files, grouped, grp_pc, grp_first>>

GrpDone ==
    /\ grp_pc = "compile"
    /\ grp_i > Len(grouped)
    /\ grp_pc' = "done"
    /\ UNCHANGED <<cls_vars, cmp_vars, main_vars, csv_files, grouped, grp_i, grp_first, grp_tables>>

GrpNext == GrpEnter \/ GrpStep \/ GrpReturn \/ GrpCompile \/ GrpDone

SpecGroup == GrpInit /\ [][GrpNext]_vars

----------------------------------------------------------------------------
(* Properties of the grouper *)

\* the raw text of the host field of the first data row, <<>> if there is none
HostText(p) ==
    LET f == Disk(p) IN
    IF f.head /\ "host" \in f.cols /\ f.rows # <<>> THEN f.rows[1].host ELSE <<>>

\* what each file on disk is, read off its name and first row: whether it
\* has a hostname with a visible character, a firmware version and a test
\* kind, and if so its key and kind
Classified ==
    [p \in Paths |->
        LET name == Disk(p).name
            spans == IF SpecificSpans(name) # {} THEN SpecificSpans(name)
                     ELSE GeneralSpans(name)
            kind == IF KnownTestType(Disk(p))
                    THEN (IF Disk(p).rows[1].test_type = TEST_TYPE_PRBS
                          THEN "PRBS" ELSE "DATA")
                    ELSE IF HasMarker(name, S_prbs_test) THEN "PRBS"
                    ELSE IF HasMarker(name, S_data_test) THEN "DATA"
                    ELSE ""
            all == /\ \E i \in DOMAIN HostText(p) : HostText(p)[i] \notin Whitespace
                   /\ spans # {}
                   /\ kind # ""
        IN [all |-> all,
            key |-> IF all THEN <<strip(HostText(p)), LeftmostLongest(name, spans)>>
                    ELSE <<>>,
            kind |-> kind]]

FullyClassified(p) == Classified[p].all

BucketPaths(g) == UNION {Range(g[i].PRBS) \cup Range(g[i].DATA) : i \in DOMAIN g}

\* C1: every file in a bucket has a non-empty hostname, a non-empty firmware
\* version and a test kind PRBS or DATA, and no key has an empty component;
\* once the grouper has returned, the files in buckets are exactly the
\* files of the list that have all three (a host of white space only is
\* in no bucket, and the files after it are still grouped).
C1_OnlyClassifiedFilesGrouped ==
    /\ \A i \in DOMAIN grouped :
          /\ grouped[i].key[1] # <<>>
          /\ grouped[i].key[2] # <<>>
          /\ strip(grouped[i].key[1]) = grouped[i].key[1]
    /\ \A p \in BucketPaths(grouped) : p \in Range(csv_files) /\ FullyClassified(p)
    /\ grp_pc \in {"compile", "done"} =>
          \A p \in Range(csv_files) : FullyClassified(p) => p \in BucketPaths(grouped)

\* the grouper returned, having dropped a file whose host is white space
\* only and grouped a file that came after it
C1_Witness ==
    /\ grp_pc = "done"
    /\ \E i, j \in DOMAIN csv_files :
          /\ i < j
          /\ HostText(csv_files[i]) = <<" ">>
          /\ csv_files[i] \notin BucketPaths(grouped)
          /\ csv_files[j] \in BucketPaths(grouped)

Count(q, x) == Cardinality({i \in DOMAIN q : q[i] = x})

\* the rows a file gives the compiler: none if it cannot be read
RowsGiven(p) == IF Disk(p).full THEN Len(Disk(p).rows) ELSE 0

RECURSIVE SumRows(_)
SumRows(files) ==
    IF files = <<>> THEN 0 ELSE RowsGiven(Head(files)) + SumRows(Tail(files))

Contiguous(t) == \A j \in DOMAIN t.rows : t.rows[j].index = j - 1

\* C9: no deduplication.  A file occurs in its bucket as often as in the
\* input list; a compiled table has as many rows as its readable non-empty
\* files have together, under the row index 0, 1, 2, ...; compiling A+A
\* gives exactly twice the rows of compiling A.
C9_NoDeduplication ==
    /\ grp_pc \in {"compile", "done"} =>
          \A p \in BucketPaths(grouped) : \A i \in DOMAIN grouped :
              p \in Range(grouped[i].PRBS) \cup Range(grouped[i].DATA) =>
                  Count(grouped[i].PRBS, p) + Count(grouped[i].DATA, p)
                      = Count(csv_files, p)
    /\ \A i \in DOMAIN grp_tables :
          /\ Len(grp_tables[i].PRBS.rows) = SumRows(grouped[i].PRBS)
          /\ Len(grp_tables[i].DATA.rows) = SumRows(grouped[i].DATA)
          /\ Len(grp_tables[i].PRBS2.rows) = 2 * Len(grp_tables[i].PRBS.rows)
          /\ Len(grp_tables[i].DATA2.rows) = 2 * Len(grp_tables[i].DATA.rows)
          /\ grp_tables[i].PRBS2.some = grp_tables[i].PRBS.some
          /\ grp_tables[i].DATA2.some = grp_tables[i].DATA.some
          /\ Contiguous(grp_tables[i].PRBS) /\ Contiguous(grp_tables[i].DATA)
          /\ Contiguous(grp_tables[i].PRBS2) /\ Contiguous(grp_tables[i].DATA2)

\* a file given twice is twice in its bucket, and its rows are twice in
\* the compiled table and four times in the doubled one
C9_Witness ==
    /\ grp_pc = "done"
    /\ \E i \in DOMAIN grp_tables :
          /\ Count(csv_files, "f1") = 2
          /\ Count(grouped[i].PRBS, "f1") = 2
          /\ Len(grp_tables[i].PRBS.rows) >= 4
          /\ Len(grp_tables[i].PRBS2.rows) = 2 * Len(grp_tables[i].PRBS.rows)

KeyOf(p) == Classified[p].key
KindOf(p) == Classified[p].kind

\* C10: after the grouper returns, each bucket's list for a kind is the
\* input list restricted to the files of that key and kind, in input
\* order; and a second call on the same list returns the same keys and the
\* same lists as the first.
C10_OrderPreserving ==
    /\ grp_pc \in {"call2", "compile", "done"} =>
          \A i \in DOMAIN grouped :
              /\ grouped[i].PRBS =
                    SelectSeq(csv_files,
                              LAMBDA p : /\ FullyClassified(p)
                                         /\ KeyOf(p) = grouped[i].key
                                         /\ KindOf(p) = "PRBS")
              /\ grouped[i].DATA =
                    SelectSeq(csv_files,
                              LAMBDA p : /\ FullyClassified(p)
                                         /\ KeyOf(p) = grouped[i].key
                                         /\ KindOf(p) = "DATA")
    /\ grp_pc \in {"compile", "done"} => grouped = grp_first

\* both calls returned a bucket holding two different PRBS files, in input order
C10_Witness ==
    /\ grp_pc = "done"
    /\ grouped = grp_first
    /\ csv_files = <<"f10", "f2", "f1">>
    /\ \E i \in DOMAIN grouped : grouped[i].PRBS = <<"f10", "f1">>

----------------------------------------------------------------------------
(* Compiler harness: the body of main's loop on one bucket whose lists are *)
(* any files at all: compile_test_data on each list, then the report.      *)

CmpPaths == {"f1", "f2", "f3", "f7", "f8"}

CmpBuckets ==
    UNION {{[key |-> <<H_h1, S_v1_7_103>>, PRBS |-> a, DATA |-> b],
            [key |-> <<H_h1, S_v1_7_103>>, PRBS |-> b, DATA |-> a]} :
              a \in SeqsUpTo(CmpPaths, MaxFiles), b \in SeqsUpTo(CmpPaths, 1)}

CmpInit ==
    /\ ClsIdle /\ GrpIdle /\ MainIdle
    /\ csv_files = <<>> /\ grouped = <<>>
    /\ cmp_bucket \in CmpBuckets
    /\ cmp_pc = "prbs"
    /\ cmp_prbs = NoTable /\ cmp_data = NoTable
    /\ cmp_out = NoOutcome

CmpPRBS ==
    /\ cmp_pc = "prbs"
    /\ cmp_prbs' = compile_test_data(cmp_bucket.PRBS)
    /\ cmp_pc' = "data"
    /\ UNCHANGED <<cls_vars, csv_files, grouped, grp_vars, main_vars,
                   cmp_bucket, cmp_data, cmp_out>>

CmpDATA ==
    /\ cmp_pc = "data"
    /\ cmp_data' = compile_test_data(cmp_bucket.DATA)
    /\ cmp_pc' = "report"
    /\ UNCHANGED <<cls_vars, csv_files, grouped, grp_vars, main_vars,
                   cmp_bucket, cmp_prbs, cmp_out>>

CmpReport ==
    /\ cmp_pc = "report"
    /\ \E template \in Templates, save_ok \in BOOLEAN :
          cmp_out' = ProcessBucket(cmp_bucket, template, save_ok)
    /\ cmp_pc' = "done"
    /\ UNCHANGED <<cls_vars, csv_files, grouped, grp_vars, main_vars,
                   cmp_bucket, cmp_prbs, cmp_data>>

CmpNext == CmpPRBS \/ CmpDATA \/ CmpReport

SpecCompile == CmpInit /\ [][CmpNext]_vars

----------------------------------------------------------------------------
(* Properties of the compiler *)

\* the file gives the compiler rows: it can be read and is not empty
Yields(p) == Disk(p).full /\ Disk(p).rows # <<>>

\* the data rows of the files that give rows, last file last
RECURSIVE RowsInFileOrder(_)
RowsInFileOrder(files) ==
    IF files = <<>> THEN <<>>
    ELSE LET n == Len(files) IN
         RowsInFileOrder(SubSeq(files, 1, n - 1))
             \o (IF Yields(files[n]) THEN Disk(files[n]).rows ELSE <<>>)

CellsOf(table) == [i \in DOMAIN table.rows |-> table.rows[i].cells]

CompiledRight(files, table) ==
    /\ table.some <=> \E i \in DOMAIN files : Yields(files[i])
    /\ CellsOf(table) = RowsInFileOrder(files)

\* C8: compile_test_data passes over each file that cannot be read or is
\* empty and goes on: the table holds exactly the rows of the files that
\* give rows, in file order, and is absent exactly when no file gives rows
\* (the empty list included).  When one kind's table is absent and the
\* other's is not, the other is still handed to the Template Populator and,
\* the template and the save permitting, is in the report.
C8_CompilerSkipsBadFiles ==
    /\ cmp_pc \in {"data", "report", "done"} =>
          CompiledRight(cmp_bucket.PRBS, cmp_prbs)
    /\ cmp_pc \in {"report", "done"} =>
          CompiledRight(cmp_bucket.DATA, cmp_data)
    /\ cmp_pc = "done" =>
          /\ cmp_out.generated <=> (cmp_prbs.some \/ cmp_data.some)
          /\ (cmp_out.generated /\ cmp_out.loaded /\ ~cmp_out.save_raised) =>
                /\ cmp_out.saved
                /\ (cmp_prbs.some /\ SHEET_RAW_PRBS \in cmp_out.sheetnames) =>
                      /\ cmp_out.report.wb.raw[SHEET_RAW_PRBS].fresh
                      /\ cmp_out.report.wb.raw[SHEET_RAW_PRBS].rows = cmp_prbs.rows
                /\ (cmp_data.some /\ SHEET_RAW_DATA \in cmp_out.sheetnames) =>
                      /\ cmp_out.report.wb.raw[SHEET_RAW_DATA].fresh
                      /\ cmp_out.report.wb.raw[SHEET_RAW_DATA].rows = cmp_data.rows

\* an unreadable file and an empty one come before a good one, whose rows
\* are compiled; the other kind has no table, and the report holds the rows
C8_Witness ==
    /\ cmp_pc = "done"
    /\ cmp_bucket.PRBS = <<"f8", "f7", "f1">>
    /\ cmp_bucket.DATA = <<"f3">>
    /\ Len(cmp_prbs.rows) = 2
    /\ ~cmp_data.some
    /\ cmp_out.saved
    /\ cmp_out.report.wb.raw[SHEET_RAW_PRBS].rows = cmp_prbs.rows

----------------------------------------------------------------------------
(* Report Driver: main.  The output directory is taken to be creatable     *)
(* (line 396); what lies at TEMPLATE_PATH and whether a save succeeds are  *)
(* chosen anew for every bucket.                                           *)

MainPaths == {"f1", "f2", "f3", "f4", "f5"}

\* what DATA_DIR.glob('*.csv') may return: distinct paths, in any order
Listings(dir) == {q \in SeqsUpTo(dir, MaxFiles) : Cardinality(Range(q)) = Len(q)}

\* args.systems: not given (None), given without a name, or given
ArgsChoices ==
    {[given |-> FALSE, names |-> <<>>]} \cup
    {[given |-> TRUE, names |-> n] :
        n \in {<<>>, <<H_h1>>, <<H_h9>>, <<H_h1, H_h9>>}}

\* `if args.systems:`
FilterGiven(args) == args.given /\ args.names # <<>>

\* no bucket is left out
FilterBuckets_keep_all(g, systems_to_process) == g

\* lines 494-498: the buckets whose hostname is one of the systems
FilterBuckets(g, systems_to_process) ==
    SelectSeq(g, LAMBDA b : b.key[1] \in systems_to_process)

\* workbook.save(output_path): a file of that name is replaced
SaveReport(dir, report) ==
    {r \in dir : r.path # report.path} \cup {report}

\* the state main starts in, with the given files in DATA_DIR
MainInitOn(dir) ==
    /\ ClsIdle /\ GrpIdle /\ CmpIdle
    /\ csv_files = <<>> /\ grouped = <<>>
    /\ data_dir = dir
    /\ args_systems \in ArgsChoices
    /\ pc = "scan"
    /\ main_i = 1 /\ success_count = 0 /\ error_count = 0
    /\ summaries = {} /\ outcomes = <<>> /\ missing_warned = {}
    /\ summary_printed = FALSE
    /\ exit_status = -1

MainInit == MainInitOn(MainPaths)

\* lines 478-482
MainScan ==
    /\ pc = "scan"
    /\ \E listing \in Listings(data_dir) :
          /\ csv_files' = listing
          /\ IF listing = <<>>
             THEN pc' = "exit" /\ exit_status' = 1
             ELSE pc' = "group" /\ exit_status' = exit_status
    /\ UNCHANGED <<cls_vars, grp_vars, cmp_vars, grouped, data_dir, args_systems, main_i,
                   success_count, error_count, summaries, outcomes,
                   missing_warned, summary_printed>>

\* lines 484-489
MainGroup ==
    /\ pc = "group"
    /\ grouped' = group_csvs_by_system_and_firmware(csv_files)
    /\ IF grouped' = <<>>
       THEN pc' = "exit" /\ exit_status' = 1
       ELSE pc' = "filter" /\ exit_status' = exit_status
    /\ UNCHANGED <<cls_vars, grp_vars, cmp_vars, csv_files, data_dir, args_systems, main_i,
                   success_count, error_count, summaries, outcomes,
                   missing_warned, summary_printed>>

\* every requested system is warned about
MissingSystems_all_requested(systems_to_process, found_systems) ==
    systems_to_process

\* line 506: systems_to_process - found_systems
MissingSystems(systems_to_process, found_systems) ==
    systems_to_process \ found_systems

\* a filter that matches nothing does not end the run
MainFilter_no_exit ==
    /\ pc = "filter"
    /\ IF FilterGiven(args_systems)
       THEN LET systems_to_process == Range(args_systems.names)
                filtered_grouped == FilterBuckets(grouped, systems_to_process)
                found_systems == {filtered_grouped[i].key[1] :
                                      i \in DOMAIN filtered_grouped}
            IN /\ missing_warned' = MissingSystems(systems_to_process, found_systems)
               /\ grouped' = filtered_grouped
               /\ pc' = "process"
               /\ exit_status' = exit_status
       ELSE /\ pc' = "process"
            /\ UNCHANGED <<grouped, missing_warned, exit_status>>
    /\ UNCHANGED <<cls_vars, grp_vars, cmp_vars, csv_files, data_dir, args_systems, main_i,
                   success_count, error_count, summaries, outcomes,
                   summary_printed>>

\* lines 491-513
MainFilter ==
    /\ pc = "filter"
    /\ IF FilterGiven(args_systems)
       THEN LET systems_to_process == Range(args_systems.names)
                filtered_grouped == FilterBuckets(grouped, systems_to_process)
                found_systems == {filtered_grouped[i].key[1] :
                                      i \in DOMAIN filtered_grouped}
            IN IF filtered_grouped = <<>>
               THEN /\ pc' = "exit"
                    /\ exit_status' = 1
                    /\ UNCHANGED <<grouped, missing_warned>>
               ELSE /\ missing_warned' = MissingSystems(systems_to_process, found_systems)
                    /\ grouped' = filtered_grouped
                    /\ pc' = "process"
                    /\ exit_status' = exit_status
       ELSE /\ pc' = "process"
            /\ UNCHANGED <<grouped, missing_warned, exit_status>>
    /\ UNCHANGED <<cls_vars, grp_vars, cmp_vars, csv_files, data_dir, args_systems, main_i,
                   success_count, error_count, summaries, outcomes,
                   summary_printed>>

\* the loop is left at the first bucket that counts as an error
MainProcess_stop_after_error ==
    /\ pc = "process"
    /\ main_i <= Len(grouped)
    /\ \E template \in Templates, save_ok \in BOOLEAN :
          LET o == ProcessBucket(grouped[main_i], template, save_ok) IN
          /\ outcomes' = Append(outcomes, o)
          /\ summaries' = IF o.saved THEN SaveReport(summaries, o.report)
                          ELSE summaries
          /\ success_count' = IF o.tally = "success" THEN success_count + 1
                              ELSE success_count
          /\ error_count' = IF o.tally = "error" THEN error_count + 1
                            ELSE error_count
          /\ main_i' = IF o.tally = "error" THEN Len(grouped) + 1 ELSE main_i + 1
    /\ UNCHANGED <<cls_vars, grp_vars, cmp_vars, csv_files, grouped, data_dir, args_systems,
                   pc, missing_warned, summary_printed, exit_status>>

\* lines 519-541: one bucket
MainProcess ==
    /\ pc = "process"
    /\ main_i <= Len(grouped)
    /\ \E template \in Templates, save_ok \in BOOLEAN :
          LET o == ProcessBucket(grouped[main_i], template, save_ok) IN
          /\ outcomes' = Append(outcomes, o)
          /\ summaries' = IF o.saved THEN SaveReport(summaries, o.report)
                          ELSE summaries
          /\ success_count' = IF o.tally = "success" THEN success_count + 1
                              ELSE success_count
          /\ error_count' = IF o.tally = "error" THEN error_count + 1
                            ELSE error_count
    /\ main_i' = main_i + 1
    /\ UNCHANGED <<cls_vars, grp_vars, cmp_vars, csv_files, grouped, data_dir, args_systems,
                   pc, missing_warned, summary_printed, exit_status>>

\* a run without a single report ends with status 1
MainSummary_fail_without_report ==
    /\ pc = "process"
    /\ main_i > Len(grouped)
    /\ summary_printed' = TRUE
    /\ pc' = "done"
    /\ exit_status' = IF success_count = 0 THEN 1 ELSE 0
    /\ UNCHANGED <<cls_vars, grp_vars, cmp_vars, csv_files, grouped, data_dir, args_systems,
                   main_i, success_count, error_count, summaries, outcomes,
                   missing_warned>>

\* the tally is printed only when a bucket failed
MainSummary_quiet_without_error ==
    /\ pc = "process"
    /\ main_i > Len(grouped)
    /\ summary_printed' = (error_count > 0)
    /\ pc' = "done"
    /\ exit_status' = 0
    /\ UNCHANGED <<cls_vars, grp_vars, cmp_vars, csv_files, grouped, data_dir, args_systems,
                   main_i, success_count, error_count, summaries, outcomes,
                   missing_warned>>

\* lines 543-550, and the return of main
MainSummary ==
    /\ pc = "process"
    /\ main_i > Len(grouped)
    /\ summary_printed' = TRUE
    /\ pc' = "done"
    /\ exit_status' = 0
    /\ UNCHANGED <<cls_vars, grp_vars, cmp_vars, csv_files, grouped, data_dir, args_systems,
                   main_i, success_count, error_count, summaries, outcomes,
                   missing_warned>>

Next == MainScan \/ MainGroup \/ MainFilter \/ MainProcess \/ MainSummary

Init == MainInit

Spec == Init /\ [][Next]_vars

\* main on a directory in which two files differ only in where the text
\* "erisc" stands: in the hostname, or in the firmware version
NamePaths == {"f1", "f2", "f11"}

NameInit == MainInitOn(NamePaths)

SpecNames == NameInit /\ [][Next]_vars

----------------------------------------------------------------------------
(* Properties of the report driver *)

\* the keys of the files of the listing that have a hostname, a firmware
\* version and a test kind
AllKeys == {KeyOf(p) : p \in {q \in Range(csv_files) : FullyClassified(q)}}

\* the keys the hostname filter lets through
SelectedKeys ==
    IF FilterGiven(args_systems)
    THEN {k \in AllKeys : k[1] \in Range(args_systems.names)}
    ELSE AllKeys

ProcessedKeys == {outcomes[i].key : i \in DOMAIN outcomes}

\* the three run-level conditions, once main has got to see them
NoInputFiles == pc # "scan" /\ csv_files = <<>>
ZeroBuckets == pc \notin {"scan", "group"} /\ csv_files # <<>> /\ AllKeys = {}
FilterMatchesNothing ==
    /\ pc \notin {"scan", "group"}
    /\ AllKeys # {}
    /\ FilterGiven(args_systems)
    /\ SelectedKeys = {}

\* C4: with no input file, with no bucket after grouping, or with a
\* non-empty hostname filter that matches no bucket, main never reaches the
\* loop: it ends with exit status 1, no bucket has been compiled or handed
\* to the Template Populator, and no report has been written.
C4_RunLevelTermination ==
    /\ NoInputFiles => pc = "exit"
    /\ ZeroBuckets => pc = "exit"
    /\ FilterMatchesNothing => pc \in {"filter", "exit"}
    /\ (NoInputFiles \/ ZeroBuckets \/ FilterMatchesNothing) =>
          outcomes = <<>> /\ summaries = {}
    /\ pc = "exit" =>
          /\ exit_status = 1
          /\ outcomes = <<>> /\ summaries = {}
          /\ NoInputFiles \/ ZeroBuckets \/ FilterMatchesNothing

\* main exited with status 1 because the filter matched none of the buckets
C4_Witness ==
    /\ pc = "exit" /\ exit_status = 1
    /\ FilterMatchesNothing
    /\ args_systems.names = <<H_h9>>
    /\ grouped # <<>>

CountTally(t) == Cardinality({i \in DOMAIN outcomes : outcomes[i].tally = t})

\* a raw-data sheet that a kind with data needs is not in the template
RawSheetMissing(o) ==
    /\ o.loaded
    /\ \/ o.prbs_data.some /\ SHEET_RAW_PRBS \notin o.sheetnames
       \/ o.data_test_data.some /\ SHEET_RAW_DATA \notin o.sheetnames

\* C6 as claimed: a template that does not load, a missing raw-data sheet
\* for a kind that has data, or a failing save each make
\* generate_excel_summary return failure and the bucket count as an error.
C6_Claimed ==
    \A i \in DOMAIN outcomes :
        LET o == outcomes[i] IN
        (o.generated /\ (~o.loaded \/ RawSheetMissing(o) \/ o.save_raised)) =>
            ~o.result /\ o.tally = "error"

\* C6 amended: generate_excel_summary returns failure exactly when the
\* template does not load or the save fails; the bucket is then counted
\* in the error tally and not in the success tally, no report is written
\* for it, and the run goes on to the next bucket.  A missing raw-data
\* sheet alone only leaves that kind out: the report is saved and counted
\* as a success.
C6_TemplateFailure ==
    /\ \A i \in DOMAIN outcomes :
          LET o == outcomes[i] IN
          o.generated =>
              /\ o.result <=> (o.loaded /\ ~o.save_raised)
              /\ ~o.result => o.tally = "error" /\ ~o.saved
              /\ o.result => o.tally = "success" /\ o.saved
              /\ (RawSheetMissing(o) /\ ~o.save_raised) => o.result
    /\ error_count = CountTally("error")
    /\ success_count = CountTally("success")
    /\ pc = "process" => main_i = Len(outcomes) + 1
    /\ pc = "done" => Len(outcomes) = Len(grouped)

\* a bucket whose template did not load was counted as an error, a bucket
\* after it was processed, and the run ended
C6_Witness ==
    /\ pc = "done"
    /\ Len(outcomes) >= 2
    /\ outcomes[1].generated /\ ~outcomes[1].loaded
    /\ outcomes[1].tally = "error"
    /\ outcomes[2].generated /\ outcomes[2].save_raised
    /\ error_count = 2 /\ success_count = 0

\* no kind's rows were freshly written to a raw-data sheet of a report
NoFreshRows(o) ==
    \/ ~o.generated
    \/ ~o.loaded
    \/ /\ ~(o.prbs_data.some /\ SHEET_RAW_PRBS \in o.sheetnames)
       /\ ~(o.data_test_data.some /\ SHEET_RAW_DATA \in o.sheetnames)

\* C7 as claimed: a processed bucket in which neither kind's rows were
\* written - both tables absent, or neither could be written - has no
\* report written and is counted as one error.
C7_Claimed ==
    \A i \in DOMAIN outcomes :
        NoFreshRows(outcomes[i]) =>
            ~outcomes[i].saved /\ outcomes[i].tally = "error"

\* C7 amended: a processed bucket whose two compiled tables are both
\* absent is not handed to the Template Populator, has no report written
\* and is counted as exactly one error.  A bucket with a compiled table of
\* which nothing could be written, the raw-data sheets missing from the
\* template, still has the workbook saved as its report and is counted as
\* a success, unless the save fails.
C7_NoDataBucket ==
    /\ \A i \in DOMAIN outcomes :
          LET o == outcomes[i] IN
          /\ (~o.prbs_data.some /\ ~o.data_test_data.some) =>
                /\ ~o.generated /\ ~o.saved /\ o.tally = "error"
                /\ \A r \in summaries : r.path # OutputFilename(o.key[1], o.key[2])
          /\ (o.generated /\ o.loaded /\ NoFreshRows(o)) =>
                /\ o.saved <=> ~o.save_raised
                /\ o.tally = (IF o.save_raised THEN "error" ELSE "success")
                /\ o.saved => /\ ~o.report.wb.raw[SHEET_RAW_PRBS].fresh
                              /\ ~o.report.wb.raw[SHEET_RAW_DATA].fresh
    /\ error_count + success_count = Len(outcomes)
    /\ error_count = CountTally("error")

\* a bucket whose only file cannot be read was counted as the one error of
\* the run, and nothing was written for it; another bucket, with data and a
\* template without raw-data sheets, had its report saved with no fresh
\* rows and was counted as a success
C7_Witness ==
    /\ pc = "done"
    /\ \E i \in DOMAIN outcomes :
          /\ outcomes[i].compiled = {"PRBS"}
          /\ ~outcomes[i].prbs_data.some /\ ~outcomes[i].data_test_data.some
          /\ ~outcomes[i].saved
          /\ outcomes[i].tally = "error"
    /\ \E j \in DOMAIN outcomes :
          /\ outcomes[j].generated /\ outcomes[j].loaded
          /\ NoFreshRows(outcomes[j])
          /\ outcomes[j].saved
          /\ outcomes[j].tally = "success"
    /\ error_count = 1
    /\ success_count >= 1

----------------------------------------------------------------------------
(* Exit status, final tally and warnings of the report driver *)

C12_Claimed == pc \in {"done", "exit"} => summary_printed

\* C12 amended: the final tally is printed at the end of every run that
\* gets past the run-level checks, after the last selected bucket, however
\* many buckets, files or sheets were skipped or failed, and it gives the
\* number of buckets attempted, succeeded and failed; a run that ends at a
\* run-level check (no input file, no bucket, a filter matching nothing)
\* prints no tally.
C12_TallyPrinted ==
    /\ summary_printed <=> pc = "done"
    /\ pc = "exit" => ~summary_printed
    /\ (pc = "process" /\ main_i > Len(grouped)) => ENABLED MainSummary
    /\ summary_printed =>
          /\ Len(outcomes) = Len(grouped)
          /\ success_count = CountTally("success")
          /\ error_count = CountTally("error")
          /\ success_count + error_count = Len(grouped)

\* the tally was printed at the end of a run in which a bucket had no
\* usable file and another one's raw-data sheets were missing
C12_Witness ==
    /\ pc = "done" /\ summary_printed
    /\ \E i \in DOMAIN outcomes : ~outcomes[i].generated
    /\ \E j \in DOMAIN outcomes :
          /\ outcomes[j].generated /\ outcomes[j].loaded
          /\ NoFreshRows(outcomes[j])

\* the requested hostnames that no bucket has
RequestedNotFound ==
    IF FilterGiven(args_systems)
    THEN Range(args_systems.names) \ {k[1] : k \in AllKeys}
    ELSE {}

\* C13 as claimed: with a filter that matches a bucket, the requested
\* hostnames without a bucket are warned about, without an error and
\* without ending the run, and the warning comes only after the matching
\* buckets have been processed.
C13_Claimed ==
    /\ pc = "done" => missing_warned = RequestedNotFound
    /\ missing_warned # {} =>
          /\ pc \in {"process", "done"}
          /\ Len(outcomes) = Len(grouped)

\* C13 amended: with a filter that matches a bucket, each requested
\* hostname that matches no bucket is warned about - no error is counted
\* for it and the run does not end - and the warning is issued when the
\* filter is applied, before the first matching bucket is processed.
C13_WarnBeforeProcessing ==
    /\ pc \in {"process", "done"} => missing_warned = RequestedNotFound
    /\ pc \in {"scan", "group", "filter", "exit"} => missing_warned = {}
    /\ missing_warned # {} =>
          /\ exit_status # 1
          /\ error_count = CountTally("error")
          /\ SelectedKeys # {}

\* h9 has been warned about and no bucket has been processed yet
C13_Witness ==
    /\ pc = "process"
    /\ outcomes = <<>> /\ main_i = 1
    /\ Len(grouped) >= 1
    /\ args_systems.names = <<H_h1, H_h9>>
    /\ missing_warned = {H_h9}

----------------------------------------------------------------------------
(* Written extent and pivot sources; counting of buckets; output paths *)

TableOf(o, raw) == IF raw = SHEET_RAW_PRBS THEN o.prbs_data ELSE o.data_test_data
SummaryOf(raw) == IF raw = SHEET_RAW_PRBS THEN SHEET_PRBS_SUMMARY ELSE SHEET_DATA_SUMMARY
RangeOf(o, raw) ==
    IF raw = SHEET_RAW_PRBS THEN o.report.prbs_range ELSE o.report.data_range

\* the rectangle from A1 to row R + 1 of the column with number C
Extent(R, C) == [first |-> "A1", last_col |-> UpperCase[C], last_row |-> R + 1]

\* the kind's table was written to its raw-data sheet
KindWritten(o, raw) == TableOf(o, raw).some /\ raw \in o.sheetnames

\* what C14 asks of one kind of one saved report
PivotsRight(o, raw) ==
    LET t == TableOf(o, raw)
        before == o.template_pivots[SummaryOf(raw)]
        after == o.report.wb.pivots[SummaryOf(raw)]
    IN IF KindWritten(o, raw)
       THEN /\ RangeOf(o, raw) = Extent(Len(t.rows), Len(t.columns))
            /\ o.report.wb.raw[raw] =
                  [fresh |-> TRUE, header |-> t.columns, rows |-> t.rows]
            /\ DOMAIN after = DOMAIN before
            /\ \A k \in DOMAIN before :
                  IF before[k].ws
                  THEN /\ after[k].sheet = raw
                       /\ after[k].ref = Extent(Len(t.rows), Len(t.columns))
                  ELSE after[k] = before[k]
       ELSE /\ RangeOf(o, raw) = NoRange
            /\ o.report.wb.raw[raw] = StaleSheet
            /\ after = before

\* C14: in every saved report, a kind whose table of R rows and C columns
\* was written has the extent A1 to (row R + 1, column C), its raw-data
\* sheet holds the header and the R rows, and every pivot table of its
\* summary sheet that has a worksheet source names that raw-data sheet and
\* that extent, the other pivot tables staying as they were; a kind
\* without written data leaves its raw-data sheet and its pivot tables as
\* the template has them; and a template without a summary sheet or
\* without pivot tables on it does not make the report fail.
C14_ExtentAndPivots ==
    \A i \in DOMAIN outcomes :
        LET o == outcomes[i] IN
        /\ o.saved =>
              /\ PivotsRight(o, SHEET_RAW_PRBS)
              /\ PivotsRight(o, SHEET_RAW_DATA)
        /\ (o.generated /\ o.loaded /\ ~o.save_raised) => o.result /\ o.saved

\* a saved report with both kinds written: the two worksheet pivot tables
\* of PRBS Summary name 'raw prbs data' and its three rows, the third one
\* is as before, and the pivot table of DATA Summary names 'raw data'
C14_Witness ==
    \E i \in DOMAIN outcomes :
        LET o == outcomes[i] IN
        /\ o.saved
        /\ KindWritten(o, SHEET_RAW_PRBS) /\ KindWritten(o, SHEET_RAW_DATA)
        /\ Len(o.prbs_data.rows) = 2
        /\ o.report.prbs_range.last_row = 3
        /\ Len(o.report.wb.pivots[SHEET_PRBS_SUMMARY]) = 3
        /\ o.report.wb.pivots[SHEET_PRBS_SUMMARY][3].sheet = SHEET_RAW_PRBS
        /\ o.report.wb.pivots[SHEET_PRBS_SUMMARY][2] = OtherPivot
        /\ Len(o.report.wb.pivots[SHEET_DATA_SUMMARY]) = 1
        /\ o.report.wb.pivots[SHEET_DATA_SUMMARY][1].sheet = SHEET_RAW_DATA
        /\ o.report.wb.pivots[SHEET_DATA_SUMMARY][1].ref = o.report.data_range

C16_Claimed ==
    /\ \A i, j \in DOMAIN grouped :
          i # j => grouped[i].key # grouped[j].key
    /\ \A i, j \in DOMAIN outcomes :
          (i # j /\ outcomes[i].saved /\ outcomes[j].saved) =>
              outcomes[i].report.path # outcomes[j].report.path
    /\ Cardinality(summaries) =
          Cardinality({i \in DOMAIN outcomes : outcomes[i].saved})

====
